---- MODULE Spec2Model ----
(***************************************************************************)
(* A model of scripts/supabase_client.py (SupabaseClient) and of           *)
(* scripts/init_agent_db.py.                                               *)
(*                                                                         *)
(* Text.  A Python str is modelled as a sequence of pieces whose           *)
(* concatenation is the text: a string that comes from the caller or from  *)
(* a file is given character by character (<<"i","n","t">>), a literal of  *)
(* the source is one piece (<<" NOT NULL">>).  Identifiers that the code   *)
(* only copies (table names, filter values, header values) are atomic      *)
(* TLA+ strings.                                                           *)
(*                                                                         *)
(* Mappings.  A Python dict is a function whose domain is its key set; a   *)
(* key that is absent is absent from the DOMAIN, and an optional argument  *)
(* that is None is absent from the record of arguments.                    *)
(***************************************************************************)
EXTENDS Integers, Sequences, FiniteSets, TLC

VARIABLES
    config,     \* self.url, self.key, self.headers, self.meta_api_url
    pc,         \* "idle", the loop a call is in, or "done" when it has ended
    call,       \* the call in progress or the last one made, with its arguments
    sent,       \* the HTTP requests of that call, in order, each with its response
    outcome,    \* how that call ended: a return value or the exception raised
    loop,       \* the locals of a running import loop
    files,      \* the file at the path the exports write and the imports read
    exported    \* history: the rows select gave to the last export that returned

vars == <<config, pc, call, sent, outcome, loop, files, exported>>

(***************************************************************************)
(* Bounds of the model.                                                    *)
(***************************************************************************)
MaxLen == 3         \* longest raw CSV field of SpecCoerce
MaxRows == 3        \* most rows of an import file
MaxBatch == 2       \* largest batch_size
MaxLimit == 10      \* largest limit / offset
MaxCols == 2        \* most columns of a table spec
MaxTable == 2       \* most rows of an exported table
MaxListed == 3      \* most tables in an answer of list_tables

(***************************************************************************)
(* Python built-ins used by the code.                                      *)
(***************************************************************************)
Min(a, b) == IF a < b THEN a ELSE b

Has(d, k) == k \in DOMAIN d

\* dict.get(k): truthiness of a flag that is True, False or absent
Truthy(d, k) == Has(d, k) /\ d[k] = TRUE

DigitChars == <<"0", "1", "2", "3", "4", "5", "6", "7", "8", "9">>

IsDigitChar(c) == \E d \in 1..10 : DigitChars[d] = c

DigitValue(c) == (CHOOSE d \in 1..10 : DigitChars[d] = c) - 1

\* str.isdigit(): non-empty and every character a digit
isdigit(s) == Len(s) > 0 /\ \A k \in 1..Len(s) : IsDigitChar(s[k])

\* str.replace(c, '', 1): the first occurrence of c removed
RECURSIVE replace_first(_, _)
replace_first(s, c) ==
    IF s = <<>> THEN <<>>
    ELSE IF Head(s) = c THEN Tail(s)
    ELSE <<Head(s)>> \o replace_first(Tail(s), c)

\* c in s
contains(s, c) == \E k \in 1..Len(s) : s[k] = c

\* the value of a string of digits
RECURSIVE DigitsValue(_)
DigitsValue(s) ==
    IF s = <<>> THEN 0
    ELSE 10 * DigitsValue(SubSeq(s, 1, Len(s) - 1)) + DigitValue(s[Len(s)])

\* str(n) of an int, as one atomic string
RECURSIVE NatToStr(_)
NatToStr(n) ==
    IF n < 10 THEN DigitChars[n + 1]
    ELSE NatToStr(n \div 10) \o DigitChars[(n % 10) + 1]

IntToStr(n) == IF n < 0 THEN "-" \o NatToStr(0 - n) ELSE NatToStr(n)

LowerAlpha == <<"a", "b", "c", "d", "e", "f", "g", "h", "i", "j", "k", "l", "m",
                "n", "o", "p", "q", "r", "s", "t", "u", "v", "w", "x", "y", "z">>

UpperAlpha == <<"A", "B", "C", "D", "E", "F", "G", "H", "I", "J", "K", "L", "M",
                "N", "O", "P", "Q", "R", "S", "T", "U", "V", "W", "X", "Y", "Z">>

UpperChar(c) ==
    IF \E k \in 1..26 : LowerAlpha[k] = c
    THEN UpperAlpha[CHOOSE k \in 1..26 : LowerAlpha[k] = c]
    ELSE c

LowerChar(c) ==
    IF \E k \in 1..26 : UpperAlpha[k] = c
    THEN LowerAlpha[CHOOSE k \in 1..26 : UpperAlpha[k] = c]
    ELSE c

\* str.upper(), str.lower()
upper(s) == [k \in 1..Len(s) |-> UpperChar(s[k])]

lower(s) == [k \in 1..Len(s) |-> LowerChar(s[k])]

(***************************************************************************)
(* The client's configuration, SupabaseClient.__init__.                    *)
(***************************************************************************)
InitialHeaders ==
    [apikey |-> "KEY", Authorization |-> "Bearer KEY",
     ContentType |-> "application/json", Prefer |-> "return=representation"]

InitialConfig ==
    [url |-> "http://host:8000", key |-> "KEY",
     headers |-> InitialHeaders, meta_api_url |-> "http://host:8000/pg"]

NoOutcome == [kind |-> "none"]

NoLoop == [data |-> <<>>, i |-> 0, total |-> 0, batch_size |-> 0]

\* no file at the path, and no export made yet
NoFile == [exists |-> FALSE]

NoExport == [format |-> "none", rows |-> <<>>]

Init ==
    /\ config = InitialConfig
    /\ pc = "idle"
    /\ call = [op |-> "__init__"]
    /\ sent = <<>>
    /\ outcome = NoOutcome
    /\ loop = NoLoop
    /\ files = NoFile
    /\ exported = NoExport

(***************************************************************************)
(* The server's answer to one request: no answer at all (the transport     *)
(* failed), or a status and a JSON body.                                   *)
(***************************************************************************)
Row1 == [id |-> 1]

Bodies == {<<>>, <<Row1>>}

Responses ==
    {[delivered |-> FALSE, status |-> 0, body |-> <<>>]}
    \cup [delivered : {TRUE}, status : {200, 404, 500}, body : Bodies]

\* Response.raise_for_status(): raises for 4xx and 5xx
RaisesForStatus(resp) == resp.status >= 400 /\ resp.status < 600

\* requests.<verb>(...) followed by raise_for_status() and response.json()
RequestOutcome(resp) ==
    IF ~resp.delivered THEN [kind |-> "ConnectionError"]
    ELSE IF RaisesForStatus(resp) THEN [kind |-> "HTTPError", status |-> resp.status]
    ELSE [kind |-> "ok", result |-> resp.body]

Failed(o) == o.kind \in {"ConnectionError", "HTTPError"}

\* one request as it leaves the client, with the answer it got
Request(method, url, headers, params, json, resp) ==
    [method |-> method, url |-> url, headers |-> headers,
     params |-> params, json |-> json, resp |-> resp]

RestUrl(table_name) == <<config.url, "/rest/v1/", table_name>>

NoParams == <<>>

NoJson == <<>>

Tables == {"products"}

FilterSpecs ==
    {<<>>, [id |-> "eq.1"], [price |-> "gte.100"],
     [id |-> "eq.1", price |-> "gte.100"]}

DataSpecs == {[name |-> "x"], [price |-> "5"]}

(***************************************************************************)
(* update and delete.                                                      *)
(***************************************************************************)
\* the loop that copies filters into params
filter_params(filters) == [k \in DOMAIN filters |-> filters[k]]

PreferRepresentation(headers) == [headers EXCEPT !.Prefer = "return=representation"]

update(table_name, data, filters, resp) ==
    /\ pc = "idle"
    /\ call' = [op |-> "update", table_name |-> table_name, data |-> data,
                filters |-> filters]
    /\ sent' = <<Request("PATCH", RestUrl(table_name),
                         PreferRepresentation(config.headers),
                         filter_params(filters), data, resp)>>
    /\ outcome' = RequestOutcome(resp)
    /\ pc' = "done"
    /\ UNCHANGED <<config, loop, files, exported>>

delete(table_name, filters, resp) ==
    /\ pc = "idle"
    /\ call' = [op |-> "delete", table_name |-> table_name, filters |-> filters]
    /\ sent' = <<Request("DELETE", RestUrl(table_name),
                         PreferRepresentation(config.headers),
                         filter_params(filters), NoJson, resp)>>
    /\ outcome' = RequestOutcome(resp)
    /\ pc' = "done"
    /\ UNCHANGED <<config, loop, files, exported>>

Update == pc = "idle" /\ \E t \in Tables, d \in DataSpecs, f \in FilterSpecs, r \in Responses :
              update(t, d, f, r)

Delete == pc = "idle" /\ \E t \in Tables, f \in FilterSpecs, r \in Responses : delete(t, f, r)

(***************************************************************************)
(* insert.                                                                 *)
(***************************************************************************)
\* The data API answers a delivered insert with a status; a 2xx answer
\* carries the representation of what was posted.
InsertResponses(payload) ==
    {[delivered |-> FALSE, status |-> 0, body |-> <<>>]}
    \cup [delivered : {TRUE}, status : {200}, body : {payload}]
    \cup [delivered : {TRUE}, status : {404, 500}, body : {<<>>}]

\* data is [single |-> row] (a dict) or [list |-> rows]
is_single(data) == Has(data, "single")

payload_of(data) == IF is_single(data) THEN data.single ELSE data.list

\* what insert returns or raises, given the answer
insert_outcome(data, resp) ==
    LET o == RequestOutcome(resp)
    IN  IF o.kind = "ok" /\ is_single(data)
        THEN [kind |-> "ok", result |-> <<o.result>>]
        ELSE o

insert_request(table_name, data, resp) ==
    Request("POST", RestUrl(table_name), PreferRepresentation(config.headers),
            NoParams, payload_of(data), resp)

insert(table_name, data, resp) ==
    /\ pc = "idle"
    /\ call' = [op |-> "insert", table_name |-> table_name, data |-> data]
    /\ sent' = <<insert_request(table_name, data, resp)>>
    /\ outcome' = insert_outcome(data, resp)
    /\ pc' = "done"
    /\ UNCHANGED <<config, loop, files, exported>>

JsonRows == {[id |-> 1], [id |-> 2]}

InsertData == [single : JsonRows] \cup [list : {<<>>, <<[id |-> 1], [id |-> 2]>>}]

Insert == pc = "idle" /\ \E t \in Tables, d \in InsertData :
              \E r \in InsertResponses(payload_of(d)) : insert(t, d, r)

(***************************************************************************)
(* execute_sql.                                                            *)
(***************************************************************************)
SqlTexts == {"SELECT 1"}

\* a 404 taken for an empty result instead of an error
execute_sql_outcome_404_empty(resp) ==
    IF ~resp.delivered THEN [kind |-> "ConnectionError", hint |-> FALSE]
    ELSE IF resp.status = 404
         THEN [kind |-> "ok", result |-> <<>>, hint |-> TRUE]
    ELSE IF RaisesForStatus(resp)
         THEN [kind |-> "HTTPError", status |-> resp.status, hint |-> FALSE]
    ELSE [kind |-> "ok", result |-> resp.body, hint |-> FALSE]

\* what execute_sql returns or raises; hint: the CREATE FUNCTION text was printed
execute_sql_outcome(resp) ==
    IF ~resp.delivered THEN [kind |-> "ConnectionError", hint |-> FALSE]
    ELSE IF resp.status = 404
         THEN [kind |-> "HTTPError", status |-> resp.status, hint |-> TRUE]
    ELSE IF RaisesForStatus(resp)
         THEN [kind |-> "HTTPError", status |-> resp.status, hint |-> FALSE]
    ELSE [kind |-> "ok", result |-> resp.body, hint |-> FALSE]

execute_sql(sql, resp) ==
    /\ pc = "idle"
    /\ call' = [op |-> "execute_sql", sql |-> sql]
    /\ sent' = <<Request("POST", <<config.url, "/rest/v1/rpc/exec_sql">>,
                         config.headers, NoParams, [query |-> sql], resp)>>
    /\ outcome' = execute_sql_outcome(resp)
    /\ pc' = "done"
    /\ UNCHANGED <<config, loop, files, exported>>

ExecuteSql == pc = "idle" /\ \E q \in SqlTexts, r \in Responses : execute_sql(q, r)

(***************************************************************************)
(* select.                                                                 *)
(***************************************************************************)
\* params[k] = v
SetItem(d, k, v) == [x \in DOMAIN d \cup {k} |-> IF x = k THEN v ELSE d[x]]

\* for key, value in filters.items(): params[key] = value
CopyFilters(params, filters) ==
    [x \in DOMAIN params \cup DOMAIN filters |->
        IF x \in DOMAIN filters THEN filters[x] ELSE params[x]]

\* the default of an argument that was not passed
Arg(args, k, default) == IF Has(args, k) THEN args[k] ELSE default

\* `if order:` leaves out an order that is None or the empty string
order_given(args) == Has(args, "order") /\ args.order # ""

\* `if limit:`, `if offset:` leave out None and 0
number_given(args, k) == Has(args, k) /\ args[k] # 0

\* the filters overwrite nothing: a key already in params is kept
select_params_keep_existing(args) ==
    LET base == [select |-> Arg(args, "columns", "*")]
        f == Arg(args, "filters", <<>>)
        p1 == [x \in DOMAIN base \cup DOMAIN f |->
                  IF x \in DOMAIN base THEN base[x] ELSE f[x]]
        p2 == IF order_given(args) /\ ~Has(p1, "order")
              THEN SetItem(p1, "order", args.order) ELSE p1
        p3 == IF number_given(args, "limit") /\ ~Has(p2, "limit")
              THEN SetItem(p2, "limit", IntToStr(args.limit)) ELSE p2
    IN  IF number_given(args, "offset") /\ ~Has(p3, "offset")
        THEN SetItem(p3, "offset", IntToStr(args.offset)) ELSE p3

\* The query parameters of select, as requests puts them on the URL: every
\* value by its str(), so an int limit of 10 is sent as "10".
select_params(args) ==
    LET p0 == [select |-> Arg(args, "columns", "*")]
        p1 == IF Has(args, "filters") /\ DOMAIN args.filters # {}
              THEN CopyFilters(p0, args.filters) ELSE p0
        p2 == IF order_given(args) THEN SetItem(p1, "order", args.order) ELSE p1
        p3 == IF number_given(args, "limit")
              THEN SetItem(p2, "limit", IntToStr(args.limit)) ELSE p2
    IN  IF number_given(args, "offset")
        THEN SetItem(p3, "offset", IntToStr(args.offset)) ELSE p3

select(args, resp) ==
    /\ pc = "idle"
    /\ call' = [op |-> "select", args |-> args]
    /\ sent' = <<Request("GET", RestUrl(args.table_name), config.headers,
                         select_params(args), NoJson, resp)>>
    /\ outcome' = RequestOutcome(resp)
    /\ pc' = "done"
    /\ UNCHANGED <<config, loop, files, exported>>

\* filters that name a column as the data API's own parameters are named
SelectFilterSpecs ==
    FilterSpecs \cup {[select |-> "eq.x"], [order |-> "eq.2"],
                      [limit |-> "lt.5", id |-> "eq.1"]}

OptionalArgs(k, values) == {<<>>} \cup {[x \in {k} |-> v] : v \in values}

Merge(a, b) == [x \in DOMAIN a \cup DOMAIN b |-> IF x \in DOMAIN a THEN a[x] ELSE b[x]]

SelectArgs ==
    {Merge(Merge(Merge(Merge(Merge(t, c), f), o), l), s) :
        t \in {[table_name |-> n] : n \in Tables},
        c \in OptionalArgs("columns", {"*", "id,name"}),
        f \in OptionalArgs("filters", SelectFilterSpecs),
        o \in OptionalArgs("order", {"", "created_at.desc"}),
        l \in OptionalArgs("limit", {0, MaxLimit}),
        s \in OptionalArgs("offset", {0, 1, MaxLimit})}

Select == pc = "idle" /\ \E a \in SelectArgs, r \in {x \in Responses : x.body = <<>>} : select(a, r)

(***************************************************************************)
(* The coercion of one CSV field, import_from_csv.                         *)
(*                                                                         *)
(* int(s) and float(s) are modelled for strings of digits, '.', '-', '+'   *)
(* and characters that neither accepts; exponents, "inf", "nan", '_' and   *)
(* white space are outside the alphabet of the model.                      *)
(***************************************************************************)
StripSign(s) == IF s # <<>> /\ Head(s) \in {"-", "+"} THEN Tail(s) ELSE s

Negative(s) == s # <<>> /\ Head(s) = "-"

\* int(s) does not raise: an optional sign, then digits
int_parses(s) == isdigit(StripSign(s))

\* float(s) does not raise: an optional sign, then digits with at most one '.'
float_parses(s) == isdigit(replace_first(StripSign(s), "."))

int_value(s) ==
    IF Negative(s) THEN 0 - DigitsValue(StripSign(s)) ELSE DigitsValue(StripSign(s))

\* the digits after the '.'
RECURSIVE AfterPoint(_)
AfterPoint(s) ==
    IF s = <<>> THEN <<>>
    ELSE IF Head(s) = "." THEN Tail(s)
    ELSE AfterPoint(Tail(s))

\* a decimal num / 10^scale with no trailing zero in its fraction
RECURSIVE Normal(_, _)
Normal(num, scale) ==
    IF scale > 0 /\ num % 10 = 0 THEN Normal(num \div 10, scale - 1)
    ELSE [num |-> num, scale |-> scale]

\* float(s) as the decimal it denotes
float_value(s) ==
    LET body == StripSign(s)
        n == DigitsValue(replace_first(body, "."))
        d == Normal(n, Len(AfterPoint(body)))
    IN  [num |-> IF Negative(s) THEN 0 - d.num ELSE d.num, scale |-> d.scale]

\* `value and value.replace('.', '', 1).replace('-', '', 1).isdigit()`
numeric_looking(value) ==
    value # <<>> /\ isdigit(replace_first(replace_first(value, "."), "-"))

\* The value stored for one field, or the ValueError that int() or float()
\* raises on a string the test let through.
coerce(value) ==
    IF numeric_looking(value)
    THEN IF contains(value, ".")
         THEN IF float_parses(value)
              THEN [type |-> "float", float |-> float_value(value)]
              ELSE [type |-> "ValueError"]
         ELSE IF int_parses(value)
              THEN [type |-> "int", int |-> int_value(value)]
              ELSE [type |-> "ValueError"]
    ELSE [type |-> "str", str |-> value]

\* one row of the file, every field coerced
convert_row(row) == [k \in DOMAIN row |-> coerce(row[k])]

row_raises(row) == \E k \in DOMAIN row : coerce(row[k]).type = "ValueError"

(***************************************************************************)
(* SpecCoerce: the coercion applied to every raw field up to MaxLen.       *)
(***************************************************************************)
FieldChars == {"0", "5", ".", "-", "a"}

RawFields == UNION {[1..n -> FieldChars] : n \in 0..MaxLen}

InitCoerce ==
    /\ config = InitialConfig
    /\ pc = "idle"
    /\ call \in {[op |-> "coerce", value |-> v] : v \in RawFields}
    /\ sent = <<>>
    /\ outcome = NoOutcome
    /\ loop = NoLoop
    /\ files = NoFile
    /\ exported = NoExport

CoerceField ==
    /\ pc = "idle"
    /\ pc' = "done"
    /\ outcome' = IF coerce(call.value).type = "ValueError"
                   THEN [kind |-> "ValueError"]
                   ELSE [kind |-> "ok", result |-> coerce(call.value)]
    /\ UNCHANGED <<config, call, sent, loop, files, exported>>

NextCoerce == CoerceField

SpecCoerce == InitCoerce /\ [][NextCoerce]_vars

(***************************************************************************)
(* import_from_csv and import_from_json.                                   *)
(*                                                                         *)
(* A CSV file is the list csv.DictReader yields: one mapping of raw        *)
(* strings per data line.  A JSON file is what json.load yields: a list of *)
(* rows ([list |-> rows]) or one object ([single |-> row]).                *)
(***************************************************************************)
CsvFields == {<<"4", "2">>, <<"a">>, <<"5", "-">>}

CsvRows == {[v |-> f] : f \in CsvFields}

CsvFiles == UNION {[1..n -> CsvRows] : n \in 0..MaxRows}

JsonFiles == [single : JsonRows] \cup [list : UNION {[1..n -> JsonRows] : n \in 0..MaxRows}]

BatchSizes == 0..MaxBatch

\* data[i:i + batch_size]
batch_at(data, i, batch_size) == SubSeq(data, i + 1, Min(i + batch_size, Len(data)))

\* `if not isinstance(data, list): data = [data]`
json_rows(file) == IF Has(file, "single") THEN <<file.single>> ELSE file.list

\* The statements before the loop, and range(0, len(data), batch_size): an
\* empty file returns 0 at once, a batch_size of 0 makes range raise.
import_start(op, table_name, file, data, batch_size) ==
    /\ pc = "idle"
    /\ call' = [op |-> op, table_name |-> table_name, file |-> file,
                batch_size |-> batch_size]
    /\ sent' = <<>>
    /\ IF data = <<>>
       THEN /\ pc' = "done"
            /\ outcome' = [kind |-> "ok", result |-> 0]
            /\ loop' = NoLoop
       ELSE IF batch_size = 0
       THEN /\ pc' = "done"
            /\ outcome' = [kind |-> "ValueError"]
            /\ loop' = NoLoop
       ELSE /\ pc' = op
            /\ outcome' = NoOutcome
            /\ loop' = [data |-> data, i |-> 0, total |-> 0, batch_size |-> batch_size]
    /\ UNCHANGED <<config, files, exported>>

import_from_csv(table_name, file, batch_size) ==
    import_start("import_from_csv", table_name, file, file, batch_size)

import_from_json(table_name, file, batch_size) ==
    import_start("import_from_json", table_name, file, json_rows(file), batch_size)

\* a failed insert is swallowed and the loop goes on with the next batch
import_insert_swallows_failure(batch, resp) ==
    LET i == loop.i + loop.batch_size
        total == IF Failed(insert_outcome([list |-> batch], resp))
                 THEN loop.total ELSE loop.total + Len(batch)
    IN  /\ sent' = Append(sent, insert_request(call.table_name, [list |-> batch], resp))
        /\ loop' = [loop EXCEPT !.i = i, !.total = total]
        /\ IF i >= Len(loop.data)
           THEN pc' = "done" /\ outcome' = [kind |-> "ok", result |-> total]
           ELSE pc' = pc /\ outcome' = outcome
        /\ UNCHANGED <<config, call, files, exported>>

\* self.insert(table_name, batch); total += len(batch); and the loop's end.
\* An exception of insert leaves the loop and the call.
import_insert(batch, resp) ==
    LET o == insert_outcome([list |-> batch], resp)
        i == loop.i + loop.batch_size
        total == loop.total + Len(batch)
    IN  /\ sent' = Append(sent, insert_request(call.table_name, [list |-> batch], resp))
        /\ IF Failed(o)
           THEN /\ pc' = "done"
                /\ outcome' = o
                /\ loop' = loop
           ELSE /\ loop' = [loop EXCEPT !.i = i, !.total = total]
                /\ IF i >= Len(loop.data)
                   THEN pc' = "done" /\ outcome' = [kind |-> "ok", result |-> total]
                   ELSE pc' = pc /\ outcome' = outcome
        /\ UNCHANGED <<config, call, files, exported>>

\* the batch as it is posted: every row of data[i:i + batch_size] converted
converted_batch(batch) == [k \in 1..Len(batch) |-> convert_row(batch[k])]

\* one pass of the loop of import_from_csv
import_from_csv_batch ==
    /\ pc = "import_from_csv"
    /\ LET batch == batch_at(loop.data, loop.i, loop.batch_size)
       IN  IF \E k \in 1..Len(batch) : row_raises(batch[k])
           THEN /\ pc' = "done"
                /\ outcome' = [kind |-> "ValueError"]
                /\ UNCHANGED <<config, call, sent, loop, files, exported>>
           ELSE \E resp \in InsertResponses(converted_batch(batch)) :
                    import_insert(converted_batch(batch), resp)

\* one pass of the loop of import_from_json
import_from_json_batch ==
    /\ pc = "import_from_json"
    /\ LET batch == batch_at(loop.data, loop.i, loop.batch_size)
       IN  \E resp \in InsertResponses(batch) : import_insert(batch, resp)

ImportFromCsv == pc = "idle" /\ \E t \in Tables, f \in CsvFiles, b \in BatchSizes :
                     import_from_csv(t, f, b)

ImportFromJson == pc = "idle" /\ \E t \in Tables, f \in JsonFiles, b \in BatchSizes :
                      import_from_json(t, f, b)

(***************************************************************************)
(* count.                                                                  *)
(*                                                                         *)
(* The answer to the count request carries response headers: a mapping     *)
(* that holds Content-Range, given character by character, or does not.    *)
(***************************************************************************)
\* s.split(sep): the parts of s between the occurrences of sep
RECURSIVE split(_, _)
split(s, sep) ==
    IF ~contains(s, sep) THEN <<s>>
    ELSE LET k == CHOOSE i \in 1..Len(s) : s[i] = sep /\ \A j \in 1..(i - 1) : s[j] # sep
         IN  <<SubSeq(s, 1, k - 1)>> \o split(SubSeq(s, k + 1, Len(s)), sep)

ContentRanges ==
    {<<"0", "-", "1", "/", "2">>, <<"*", "/", "0">>,
     <<"0", "-", "9", "/", "1", "2">>, <<"0", "-", "1", "/", "*">>}

ResponseHeaders == {<<>>} \cup {[ContentRange |-> v] : v \in ContentRanges}

CountResponses ==
    {[delivered |-> FALSE, status |-> 0, body |-> <<>>, headers |-> <<>>]}
    \cup [delivered : {TRUE}, status : {200, 206}, body : {<<>>}, headers : ResponseHeaders]
    \cup [delivered : {TRUE}, status : {500}, body : {<<>>}, headers : {<<>>}]

\* the headers count builds for its own request
count_headers ==
    [apikey |-> config.key, Authorization |-> "Bearer " \o config.key,
     Prefer |-> "count=exact"]

\* response.headers.get("Content-Range", "0")
content_range(resp) ==
    IF Has(resp.headers, "ContentRange") THEN resp.headers.ContentRange ELSE <<"0">>

\* raise_for_status(), then int(<Content-Range>.split("/")[1]): the index
\* raises when there is no "/", int raises on a part that is no number
count_outcome(resp) ==
    LET parts == split(content_range(resp), "/")
    IN  IF ~resp.delivered THEN [kind |-> "ConnectionError"]
        ELSE IF RaisesForStatus(resp) THEN [kind |-> "HTTPError", status |-> resp.status]
        ELSE IF Len(parts) < 2 THEN [kind |-> "IndexError"]
        ELSE IF ~int_parses(parts[2]) THEN [kind |-> "ValueError"]
        ELSE [kind |-> "ok", result |-> int_value(parts[2])]

\* count writes its Prefer into the client's own headers and sends those
count_in_shared_headers(table_name, filters, resp) ==
    /\ pc = "idle"
    /\ call' = [op |-> "count", table_name |-> table_name, filters |-> filters]
    /\ config' = [config EXCEPT !.headers = [config.headers EXCEPT !.Prefer = "count=exact"]]
    /\ sent' = <<Request("GET", RestUrl(table_name), config'.headers,
                         filter_params(filters), NoJson, resp)>>
    /\ outcome' = count_outcome(resp)
    /\ pc' = "done"
    /\ UNCHANGED <<loop, files, exported>>

count(table_name, filters, resp) ==
    /\ pc = "idle"
    /\ call' = [op |-> "count", table_name |-> table_name, filters |-> filters]
    /\ sent' = <<Request("GET", RestUrl(table_name), count_headers,
                         filter_params(filters), NoJson, resp)>>
    /\ outcome' = count_outcome(resp)
    /\ pc' = "done"
    /\ UNCHANGED <<config, loop, files, exported>>

CountRows == pc = "idle" /\ \E t \in Tables, f \in FilterSpecs, r \in CountResponses : count(t, f, r)

(***************************************************************************)
(* export_to_csv and export_to_json, and the imports of the file they      *)
(* wrote.                                                                  *)
(*                                                                         *)
(* A value of a row that select returns is an int, None or a str:          *)
(* [type |-> "int", int |-> n], [type |-> "null"], [type |-> "str",        *)
(* str |-> text].  A CSV file holds, as everywhere in this model, the list *)
(* csv.DictReader yields; a JSON file holds the tokens json.dump wrote.    *)
(* The exports and the imports of the model use one path.                  *)
(***************************************************************************)
\* str(n) of an int, character by character
RECURSIVE NatChars(_)
NatChars(n) ==
    IF n < 10 THEN <<DigitChars[n + 1]>>
    ELSE NatChars(n \div 10) \o <<DigitChars[(n % 10) + 1]>>

IntChars(n) == IF n < 0 THEN <<"-">> \o NatChars(0 - n) ELSE NatChars(n)

\* the field csv.DictWriter writes for a value: '' for None, str(value) otherwise
csv_field(v) ==
    IF v.type = "null" THEN <<>>
    ELSE IF v.type = "int" THEN IntChars(v.int)
    ELSE v.str

\* writer.writeheader(); writer.writerows(data), as DictReader reads it back
csv_written(data) ==
    [k \in 1..Len(data) |-> [f \in DOMAIN data[1] |-> csv_field(data[k][f])]]

\* json.dump of one value, and json.load of one token
json_token(v) ==
    IF v.type = "null" THEN [token |-> "null"]
    ELSE IF v.type = "int" THEN [token |-> "number", text |-> IntChars(v.int)]
    ELSE [token |-> "string", text |-> v.str]

json_value(t) ==
    IF t.token = "null" THEN [type |-> "null"]
    ELSE IF t.token = "number" THEN [type |-> "int", int |-> int_value(t.text)]
    ELSE [type |-> "str", str |-> t.text]

json_dump(data) ==
    [k \in 1..Len(data) |-> [f \in DOMAIN data[k] |-> json_token(data[k][f])]]

json_load(text) ==
    [list |-> [k \in 1..Len(text) |-> [f \in DOMAIN text[k] |-> json_value(text[k][f])]]]

\* data = self.select(table_name, filters=filters, schema=schema), then the
\* file: an exception of select leaves the call before anything is written
export(op, args, resp, written) ==
    /\ pc = "idle"
    /\ call' = [op |-> op, args |-> args]
    /\ sent' = <<Request("GET", RestUrl(args.table_name), config.headers,
                         select_params(args), NoJson, resp)>>
    /\ pc' = "done"
    /\ IF Failed(RequestOutcome(resp))
       THEN /\ outcome' = RequestOutcome(resp)
            /\ UNCHANGED <<files, exported>>
       ELSE /\ outcome' = [kind |-> "ok", result |-> Len(resp.body)]
            /\ files' = written
            /\ exported' = [format |-> IF op = "export_to_csv" THEN "csv" ELSE "json",
                            rows |-> resp.body]
    /\ UNCHANGED <<config, loop>>

\* `if not data: return 0` comes before the file is opened
export_to_csv(args, resp) ==
    export("export_to_csv", args, resp,
           IF resp.body = <<>> THEN files
           ELSE [exists |-> TRUE, format |-> "csv", rows |-> csv_written(resp.body)])

export_to_json(args, resp) ==
    export("export_to_json", args, resp,
           [exists |-> TRUE, format |-> "json", text |-> json_dump(resp.body)])

\* open(input_file) of a path that holds no file
import_missing_file(op, table_name, batch_size) ==
    /\ pc = "idle"
    /\ ~files.exists
    /\ call' = [op |-> op, table_name |-> table_name, file |-> <<>>,
                batch_size |-> batch_size]
    /\ sent' = <<>>
    /\ outcome' = [kind |-> "FileNotFoundError"]
    /\ pc' = "done"
    /\ UNCHANGED <<config, loop, files, exported>>

StoredRows ==
    {[id |-> [type |-> "int", int |-> 7], note |-> [type |-> "null"]],
     [id |-> [type |-> "int", int |-> 0 - 5], note |-> [type |-> "str", str |-> <<"a">>]],
     [id |-> [type |-> "int", int |-> 12], note |-> [type |-> "str", str |-> <<"5", "-">>]]}

TableContents == UNION {[1..n -> StoredRows] : n \in 0..MaxTable}

ExportResponses ==
    {[delivered |-> FALSE, status |-> 0, body |-> <<>>],
     [delivered |-> TRUE, status |-> 500, body |-> <<>>]}
    \cup [delivered : {TRUE}, status : {200}, body : TableContents]

ExportArgs ==
    {Merge(t, f) : t \in {[table_name |-> n] : n \in Tables},
                   f \in OptionalArgs("filters", {[id |-> "gte.0"]})}

ExportToCsv == pc = "idle" /\ \E a \in ExportArgs, r \in ExportResponses : export_to_csv(a, r)

ExportToJson == pc = "idle" /\ \E a \in ExportArgs, r \in ExportResponses : export_to_json(a, r)

ImportCsvFile == pc = "idle" /\ files.exists /\ files.format = "csv"
                 /\ \E t \in Tables, b \in BatchSizes : import_from_csv(t, files.rows, b)

ImportJsonFile == pc = "idle" /\ files.exists /\ files.format = "json"
                  /\ \E t \in Tables, b \in BatchSizes :
                         import_from_json(t, json_load(files.text), b)

ImportMissingFile == pc = "idle" /\ \E op \in {"import_from_csv", "import_from_json"},
                                       t \in Tables, b \in BatchSizes :
                                        import_missing_file(op, t, b)

(***************************************************************************)
(* The call returns (or its exception reaches the caller): the client is   *)
(* idle again and keeps nothing of the call but its configuration.         *)
(***************************************************************************)
Return ==
    /\ pc = "done"
    /\ pc' = "idle"
    /\ call' = [op |-> "__init__"]
    /\ sent' = <<>>
    /\ outcome' = NoOutcome
    /\ loop' = NoLoop
    /\ UNCHANGED <<config, files, exported>>

(***************************************************************************)
(* create_table.                                                           *)
(*                                                                         *)
(* A column is a dict: name and type are strings given character by        *)
(* character, the flags are booleans, defaultValue is [str |-> text] or    *)
(* [num |-> n]; any key may be absent.  The SQL text is a sequence of      *)
(* pieces: the literals of the source are cut so that each constraint is   *)
(* one piece.                                                              *)
(***************************************************************************)
SettleSeconds == 3

\* f'    "{col["name"]}"'
quoted_name(col) == <<"    \"">> \o col.name \o <<"\"">>

\* col["type"].lower() in [...]
type_in(col, names) == lower(col.type) \in names

\* the truthiness of col.get("defaultValue"): not None, not "", not 0
default_given(col) ==
    /\ Has(col, "defaultValue")
    /\ (Has(col.defaultValue, "str") => col.defaultValue.str # <<>>)
    /\ (Has(col.defaultValue, "num") => col.defaultValue.num # 0)

\* the DEFAULT clause of a column whose defaultValue is truthy
default_clause(default_val) ==
    IF Has(default_val, "str") /\ default_val.str = <<"n", "o", "w", "(", ")">>
    THEN <<" DEFAULT ", "NOW()">>
    ELSE IF Has(default_val, "str") /\ ~isdigit(default_val.str)
    THEN <<" DEFAULT ", "'">> \o default_val.str \o <<"'">>
    ELSE IF Has(default_val, "str")
    THEN <<" DEFAULT ">> \o default_val.str
    ELSE <<" DEFAULT ", IntToStr(default_val.num)>>

\* the clause of one column that has a name and a type
column_def(col) ==
    LET d0 == quoted_name(col) \o <<" ">> \o upper(col.type)
        d1 == IF Truthy(col, "isPrimaryKey") THEN d0 \o <<" PRIMARY KEY">> ELSE d0
        d2 == IF Truthy(col, "isIdentity")
              THEN IF type_in(col, {<<"i", "n", "t", "e", "g", "e", "r">>,
                                    <<"i", "n", "t">>})
                   THEN quoted_name(col) \o <<" ", "SERIAL", " PRIMARY KEY">>
                   ELSE IF type_in(col, {<<"b", "i", "g", "i", "n", "t">>,
                                         <<"b", "i", "g", " ", "i", "n", "t", "e", "g", "e", "r">>})
                   THEN quoted_name(col) \o <<" ", "BIGSERIAL", " PRIMARY KEY">>
                   ELSE d1 \o <<" GENERATED BY DEFAULT AS IDENTITY">>
              ELSE d1
        d3 == IF ~Truthy(col, "isNullable") /\ ~Truthy(col, "isPrimaryKey")
              THEN d2 \o <<" NOT NULL">> ELSE d2
    IN  IF default_given(col) THEN d3 \o default_clause(col.defaultValue) ELSE d3

\* the clauses joined by ", " on one line
RECURSIVE join_on_one_line(_)
join_on_one_line(defs) ==
    IF defs = <<>> THEN <<>>
    ELSE IF Len(defs) = 1 THEN defs[1]
    ELSE defs[1] \o <<", ">> \o join_on_one_line(Tail(defs))

\* ",\n".join(column_defs)
RECURSIVE join_lines(_)
join_lines(defs) ==
    IF defs = <<>> THEN <<>>
    ELSE IF Len(defs) = 1 THEN defs[1]
    ELSE defs[1] \o <<",\n">> \o join_lines(Tail(defs))

full_table_name(table_name, schema) ==
    IF schema # "public" THEN <<"\"", schema, "\".\"", table_name, "\"">>
    ELSE <<"\"", table_name, "\"">>

create_table_sql(table_name, columns, schema) ==
    <<"CREATE TABLE ">> \o full_table_name(table_name, schema) \o <<" (\n">>
    \o join_lines([k \in 1..Len(columns) |-> column_def(columns[k])])
    \o <<"\n);">>

\* col["name"] or col["type"] raises KeyError
lacks_key(col) == ~Has(col, "name") \/ ~Has(col, "type")

\* requests.post and raise_for_status; then the wait for the schema cache and
\* the returned description
create_table_outcome(table_name, columns, resp) ==
    IF Failed(RequestOutcome(resp)) THEN RequestOutcome(resp)
    ELSE [kind |-> "ok", slept |-> SettleSeconds,
          result |-> [table_name |-> table_name, columns |-> columns]]

create_table(table_name, columns, schema, resp) ==
    /\ pc = "idle"
    /\ pc' = "done"
    /\ call' = [op |-> "create_table", table_name |-> table_name,
                columns |-> columns, schema |-> schema]
    /\ IF \E k \in 1..Len(columns) : lacks_key(columns[k])
       THEN /\ sent' = <<>>
            /\ outcome' = [kind |-> "KeyError"]
       ELSE /\ sent' = <<Request("POST", <<config.meta_api_url, "/query">>,
                                 config.headers, NoParams,
                                 [query |-> create_table_sql(table_name, columns, schema)],
                                 resp)>>
            /\ outcome' = create_table_outcome(table_name, columns, resp)
    /\ UNCHANGED <<config, loop, files, exported>>

(***************************************************************************)
(* SpecDDL: create_table on every list of at most MaxCols columns.         *)
(***************************************************************************)
NamedTypes ==
    {[name |-> <<"i", "d">>, type |-> <<"i", "n", "t", "e", "g", "e", "r">>],
     [name |-> <<"n", "o">>, type |-> <<"B", "i", "g", "I", "n", "t">>],
     [name |-> <<"t">>, type |-> <<"t", "e", "x", "t">>]}

ColumnFlags ==
    {Merge(Merge(p, i), n) :
        p \in OptionalArgs("isPrimaryKey", {TRUE}),
        i \in OptionalArgs("isIdentity", {TRUE}),
        n \in OptionalArgs("isNullable", {TRUE})}

\* columns that set isNullable to False
ColumnsNotNullable ==
    {[name |-> <<"t">>, type |-> <<"t", "e", "x", "t">>, isNullable |-> FALSE],
     [name |-> <<"i", "d">>, type |-> <<"I", "N", "T">>, isIdentity |-> TRUE,
      isPrimaryKey |-> FALSE, isNullable |-> FALSE]}

ColumnsWithDefault ==
    {[name |-> <<"a", "t">>, type |-> <<"t", "i", "m", "e", "s", "t", "a", "m", "p">>,
      defaultValue |-> [str |-> <<"n", "o", "w", "(", ")">>]],
     [name |-> <<"s">>, type |-> <<"t", "e", "x", "t">>,
      defaultValue |-> [str |-> <<"a">>]],
     [name |-> <<"n">>, type |-> <<"i", "n", "t">>, isNullable |-> TRUE,
      defaultValue |-> [num |-> 5]]}

ColumnsLackingKey ==
    {[type |-> <<"t", "e", "x", "t">>], [name |-> <<"t">>, isNullable |-> TRUE]}

ColumnSpecs ==
    {Merge(b, f) : b \in NamedTypes, f \in ColumnFlags}
    \cup ColumnsNotNullable \cup ColumnsWithDefault \cup ColumnsLackingKey

ColumnLists == UNION {[1..n -> ColumnSpecs] : n \in 0..MaxCols}

Schemas == {"public", "app"}

DDLResponses ==
    {[delivered |-> FALSE, status |-> 0, body |-> <<>>]}
    \cup [delivered : {TRUE}, status : {200, 500}, body : {<<>>}]

CreateTable == pc = "idle" /\ \E t \in Tables, c \in ColumnLists, sch \in Schemas, r \in DDLResponses :
                   create_table(t, c, sch, r)

NextDDL == CreateTable \/ Return

SpecDDL == Init /\ [][NextDDL]_vars

(***************************************************************************)
(* SpecColumn: create_table on one column, over the default values a       *)
(* caller may give: the token now() in three letter cases, text, digits,   *)
(* the empty string, numbers, and a text that brings its own quotes as the *)
(* defaults of init_agent_db.py do.                                        *)
(***************************************************************************)
DefaultValues ==
    {[str |-> <<"n", "o", "w", "(", ")">>],
     [str |-> <<"N", "O", "W", "(", ")">>],
     [str |-> <<"N", "o", "w", "(", ")">>],
     [str |-> <<"a">>],
     [str |-> <<"'", "a", "'">>],
     [str |-> <<"4", "2">>],
     [str |-> <<"0">>],
     [str |-> <<>>],
     [num |-> 0],
     [num |-> 5]}

DefaultedColumns ==
    {Merge(Merge(b, f), d) :
        b \in NamedTypes, f \in ColumnFlags,
        d \in OptionalArgs("defaultValue", DefaultValues)}

CreateTableColumn == pc = "idle" /\ \E t \in Tables, c \in DefaultedColumns, sch \in Schemas, r \in DDLResponses :
                         create_table(t, <<c>>, sch, r)

NextColumn == CreateTableColumn \/ Return

SpecColumn == Init /\ [][NextColumn]_vars

(***************************************************************************)
(* Table management through the metadata API: list_tables, get_table_info, *)
(* drop_table, add_column, alter_column, drop_column.                      *)
(***************************************************************************)
TableUrl(table_name, schema) ==
    <<config.meta_api_url, "/tables/", schema, ".", table_name>>

\* one request with the client's own headers, its status check and its JSON
meta_call(c, request) ==
    /\ pc = "idle"
    /\ call' = c
    /\ sent' = <<request>>
    /\ outcome' = RequestOutcome(request.resp)
    /\ pc' = "done"
    /\ UNCHANGED <<config, loop, files, exported>>

list_tables(schema, resp) ==
    meta_call([op |-> "list_tables", schema |-> schema],
              Request("GET", <<config.meta_api_url, "/tables">>, config.headers,
                      [schema |-> schema], NoJson, resp))

get_table_info(table_name, schema, resp) ==
    meta_call([op |-> "get_table_info", table_name |-> table_name, schema |-> schema],
              Request("GET", TableUrl(table_name, schema), config.headers,
                      NoParams, NoJson, resp))

drop_table(table_name, schema, cascade, resp) ==
    meta_call([op |-> "drop_table", table_name |-> table_name, schema |-> schema,
               cascade |-> cascade],
              Request("DELETE", TableUrl(table_name, schema), config.headers,
                      [cascade |-> cascade], NoJson, resp))

\* the message printed after the request reads column['name']
add_column(table_name, column, schema, resp) ==
    /\ pc = "idle"
    /\ call' = [op |-> "add_column", table_name |-> table_name, column |-> column,
                schema |-> schema]
    /\ sent' = <<Request("POST", TableUrl(table_name, schema) \o <<"/columns">>,
                         config.headers, NoParams, column, resp)>>
    /\ outcome' = IF ~Failed(RequestOutcome(resp)) /\ ~Has(column, "name")
                   THEN [kind |-> "KeyError"]
                   ELSE RequestOutcome(resp)
    /\ pc' = "done"
    /\ UNCHANGED <<config, loop, files, exported>>

alter_column(table_name, column_name, alterations, schema, resp) ==
    meta_call([op |-> "alter_column", table_name |-> table_name,
               column_name |-> column_name, alterations |-> alterations,
               schema |-> schema],
              Request("PATCH", TableUrl(table_name, schema) \o <<"/columns/", column_name>>,
                      config.headers, NoParams, alterations, resp))

drop_column(table_name, column_name, schema, resp) ==
    meta_call([op |-> "drop_column", table_name |-> table_name,
               column_name |-> column_name, schema |-> schema],
              Request("DELETE", TableUrl(table_name, schema) \o <<"/columns/", column_name>>,
                      config.headers, NoParams, NoJson, resp))

ColumnNames == {"name", "price"}

Alterations == {[nullable |-> FALSE], [default |-> "0"]}

ListTables == pc = "idle" /\ \E sch \in Schemas, r \in Responses : list_tables(sch, r)

GetTableInfo == pc = "idle" /\ \E t \in Tables, sch \in Schemas, r \in Responses :
                    get_table_info(t, sch, r)

DropTable == pc = "idle" /\ \E t \in Tables, sch \in Schemas, c \in BOOLEAN, r \in Responses :
                 drop_table(t, sch, c, r)

AddColumn == pc = "idle" /\ \E t \in Tables, c \in ColumnsWithDefault \cup ColumnsLackingKey,
                               sch \in Schemas, r \in Responses :
                 add_column(t, c, sch, r)

AlterColumn == pc = "idle" /\ \E t \in Tables, n \in ColumnNames, a \in Alterations,
                                 sch \in Schemas, r \in Responses :
                   alter_column(t, n, a, sch, r)

DropColumn == pc = "idle" /\ \E t \in Tables, n \in ColumnNames, sch \in Schemas, r \in Responses :
                  drop_column(t, n, sch, r)

(***************************************************************************)
(* SpecLifetime: every operation of the client, one call after another,    *)
(* each answered well or badly.  select and create_table take a few        *)
(* arguments here; Spec and SpecDDL go through their arguments.            *)
(***************************************************************************)
SelectRows == pc = "idle" /\ \E a \in ExportArgs, r \in Responses : select(a, r)

CreateTableDefaulted == pc = "idle" /\ \E t \in Tables, c \in ColumnsWithDefault \cup ColumnsLackingKey,
                                          sch \in Schemas, r \in DDLResponses :
                            create_table(t, <<c>>, sch, r)

NextLifetime ==
    \/ CreateTableDefaulted \/ ListTables \/ GetTableInfo \/ DropTable
    \/ AddColumn \/ AlterColumn \/ DropColumn
    \/ Insert \/ SelectRows \/ Update \/ Delete \/ CountRows \/ ExecuteSql
    \/ ExportToCsv \/ ExportToJson
    \/ ImportCsvFile \/ ImportJsonFile \/ ImportMissingFile
    \/ import_from_csv_batch \/ import_from_json_batch
    \/ Return

SpecLifetime == Init /\ [][NextLifetime]_vars

(***************************************************************************)
(* init_agent_db.py: main() creates three tables and verifies them, all    *)
(* inside one try whose handler returns 1.                                 *)
(***************************************************************************)
SourceConfigsColumns ==
    <<[name |-> <<"i", "d">>, type |-> <<"U", "U", "I", "D">>,
       isPrimaryKey |-> TRUE],
      [name |-> <<"u", "s", "e", "r", "_", "i", "d">>,
       type |-> <<"U", "U", "I", "D">>, isNullable |-> FALSE],
      [name |-> <<"t", "y", "p", "e">>,
       type |-> <<"V", "A", "R", "C", "H", "A", "R", "(", "2", "0", ")">>,
       isNullable |-> FALSE],
      [name |-> <<"n", "a", "m", "e">>,
       type |-> <<"V", "A", "R", "C", "H", "A", "R", "(", "1", "0", "0", ")">>,
       isNullable |-> FALSE],
      [name |-> <<"d", "e", "s", "c", "r", "i", "p", "t", "i", "o", "n">>,
       type |-> <<"T", "E", "X", "T">>, isNullable |-> TRUE],
      [name |-> <<"c", "o", "n", "f", "i", "g">>,
       type |-> <<"J", "S", "O", "N", "B">>, isNullable |-> FALSE],
      [name |-> <<"s", "c", "h", "e", "d", "u", "l", "e">>,
       type |-> <<"V", "A", "R", "C", "H", "A", "R", "(", "5", "0", ")">>,
       defaultValue |-> [str |-> <<"'", "0", " ", "*", "/", "6", " ", "*", " ", "*", " ", "*", "'">>]],
      [name |-> <<"e", "n", "a", "b", "l", "e", "d">>,
       type |-> <<"B", "O", "O", "L", "E", "A", "N">>,
       defaultValue |-> [str |-> <<"t", "r", "u", "e">>]],
      [name |-> <<"p", "u", "s", "h", "_", "t", "a", "r", "g", "e", "t", "s">>,
       type |-> <<"J", "S", "O", "N", "B">>,
       defaultValue |-> [str |-> <<"'", "[", "]", "'", ":", ":", "j", "s", "o", "n", "b">>]],
      [name |-> <<"l", "a", "s", "t", "_", "c", "h", "e", "c", "k", "_", "a", "t">>,
       type |-> <<"T", "I", "M", "E", "S", "T", "A", "M", "P">>,
       isNullable |-> TRUE],
      [name |-> <<"l", "a", "s", "t", "_", "c", "o", "n", "t", "e", "n", "t", "_", "i", "d">>,
       type |-> <<"V", "A", "R", "C", "H", "A", "R", "(", "2", "5", "5", ")">>,
       isNullable |-> TRUE],
      [name |-> <<"l", "a", "s", "t", "_", "e", "r", "r", "o", "r">>,
       type |-> <<"T", "E", "X", "T">>, isNullable |-> TRUE],
      [name |-> <<"e", "r", "r", "o", "r", "_", "c", "o", "u", "n", "t">>,
       type |-> <<"I", "N", "T", "E", "G", "E", "R">>,
       defaultValue |-> [str |-> <<"0">>]],
      [name |-> <<"c", "r", "e", "a", "t", "e", "d", "_", "a", "t">>,
       type |-> <<"T", "I", "M", "E", "S", "T", "A", "M", "P">>,
       defaultValue |-> [str |-> <<"n", "o", "w", "(", ")">>]],
      [name |-> <<"u", "p", "d", "a", "t", "e", "d", "_", "a", "t">>,
       type |-> <<"T", "I", "M", "E", "S", "T", "A", "M", "P">>,
       defaultValue |-> [str |-> <<"n", "o", "w", "(", ")">>]]>>

MonitorJobsColumns ==
    <<[name |-> <<"i", "d">>, type |-> <<"U", "U", "I", "D">>,
       isPrimaryKey |-> TRUE],
      [name |-> <<"s", "o", "u", "r", "c", "e", "_", "c", "o", "n", "f", "i", "g", "_", "i", "d">>,
       type |-> <<"U", "U", "I", "D">>, isNullable |-> FALSE],
      [name |-> <<"s", "t", "a", "t", "u", "s">>,
       type |-> <<"V", "A", "R", "C", "H", "A", "R", "(", "2", "0", ")">>,
       defaultValue |-> [str |-> <<"'", "p", "e", "n", "d", "i", "n", "g", "'">>]],
      [name |-> <<"i", "t", "e", "m", "s", "_", "f", "o", "u", "n", "d">>,
       type |-> <<"I", "N", "T", "E", "G", "E", "R">>,
       defaultValue |-> [str |-> <<"0">>]],
      [name |-> <<"n", "e", "w", "_", "i", "t", "e", "m", "s">>,
       type |-> <<"I", "N", "T", "E", "G", "E", "R">>,
       defaultValue |-> [str |-> <<"0">>]],
      [name |-> <<"s", "u", "m", "m", "a", "r", "y", "_", "g", "e", "n", "e", "r", "a", "t", "e", "d">>,
       type |-> <<"B", "O", "O", "L", "E", "A", "N">>,
       defaultValue |-> [str |-> <<"f", "a", "l", "s", "e">>]],
      [name |-> <<"e", "r", "r", "o", "r", "_", "m", "e", "s", "s", "a", "g", "e">>,
       type |-> <<"T", "E", "X", "T">>, isNullable |-> TRUE],
      [name |-> <<"r", "e", "t", "r", "y", "_", "c", "o", "u", "n", "t">>,
       type |-> <<"I", "N", "T", "E", "G", "E", "R">>,
       defaultValue |-> [str |-> <<"0">>]],
      [name |-> <<"s", "t", "a", "r", "t", "e", "d", "_", "a", "t">>,
       type |-> <<"T", "I", "M", "E", "S", "T", "A", "M", "P">>,
       isNullable |-> TRUE],
      [name |-> <<"c", "o", "m", "p", "l", "e", "t", "e", "d", "_", "a", "t">>,
       type |-> <<"T", "I", "M", "E", "S", "T", "A", "M", "P">>,
       isNullable |-> TRUE],
      [name |-> <<"c", "r", "e", "a", "t", "e", "d", "_", "a", "t">>,
       type |-> <<"T", "I", "M", "E", "S", "T", "A", "M", "P">>,
       defaultValue |-> [str |-> <<"n", "o", "w", "(", ")">>]]>>

PushLogsColumns ==
    <<[name |-> <<"i", "d">>, type |-> <<"U", "U", "I", "D">>,
       isPrimaryKey |-> TRUE],
      [name |-> <<"u", "s", "e", "r", "_", "i", "d">>,
       type |-> <<"U", "U", "I", "D">>, isNullable |-> FALSE],
      [name |-> <<"m", "o", "n", "i", "t", "o", "r", "_", "j", "o", "b", "_", "i", "d">>,
       type |-> <<"U", "U", "I", "D">>, isNullable |-> TRUE],
      [name |-> <<"p", "u", "s", "h", "_", "t", "y", "p", "e">>,
       type |-> <<"V", "A", "R", "C", "H", "A", "R", "(", "2", "0", ")">>,
       isNullable |-> FALSE],
      [name |-> <<"s", "t", "a", "t", "u", "s">>,
       type |-> <<"V", "A", "R", "C", "H", "A", "R", "(", "2", "0", ")">>,
       defaultValue |-> [str |-> <<"'", "p", "e", "n", "d", "i", "n", "g", "'">>]],
      [name |-> <<"t", "i", "t", "l", "e">>,
       type |-> <<"V", "A", "R", "C", "H", "A", "R", "(", "2", "5", "5", ")">>,
       isNullable |-> TRUE],
      [name |-> <<"c", "o", "n", "t", "e", "n", "t", "_", "s", "u", "m", "m", "a", "r", "y">>,
       type |-> <<"T", "E", "X", "T">>, isNullable |-> TRUE],
      [name |-> <<"c", "o", "n", "t", "e", "n", "t", "_", "f", "u", "l", "l">>,
       type |-> <<"T", "E", "X", "T">>, isNullable |-> TRUE],
      [name |-> <<"m", "e", "t", "a", "d", "a", "t", "a">>,
       type |-> <<"J", "S", "O", "N", "B">>, isNullable |-> TRUE],
      [name |-> <<"s", "e", "n", "t", "_", "a", "t">>,
       type |-> <<"T", "I", "M", "E", "S", "T", "A", "M", "P">>,
       isNullable |-> TRUE],
      [name |-> <<"e", "r", "r", "o", "r", "_", "m", "e", "s", "s", "a", "g", "e">>,
       type |-> <<"T", "E", "X", "T">>, isNullable |-> TRUE],
      [name |-> <<"c", "r", "e", "a", "t", "e", "d", "_", "a", "t">>,
       type |-> <<"T", "I", "M", "E", "S", "T", "A", "M", "P">>,
       defaultValue |-> [str |-> <<"n", "o", "w", "(", ")">>]]>>

AgentTableNames == <<"source_configs", "monitor_jobs", "push_logs">>

AgentColumns == <<SourceConfigsColumns, MonitorJobsColumns, PushLogsColumns>>

\* where main stands before its k-th create_table, and after the third
MainPc == <<"idle", "main_create_2", "main_create_3", "main_verify">>

\* `except Exception as e: ... return 1`
main_returns_1(exception) == [kind |-> "return", result |-> 1, caught |-> exception]

\* the exception of a create_table is swallowed and main goes on
main_create_table_goes_on(k, resp) ==
    /\ pc = MainPc[k]
    /\ call' = [op |-> "main"]
    /\ sent' = Append(sent, Request("POST", <<config.meta_api_url, "/query">>,
                                    config.headers, NoParams,
                                    [query |-> create_table_sql(AgentTableNames[k],
                                                                AgentColumns[k], "public")],
                                    resp))
    /\ pc' = MainPc[k + 1]
    /\ outcome' = NoOutcome
    /\ UNCHANGED <<config, loop, files, exported>>

\* client.create_table(<k-th table>, [...]): its exception ends the try
main_create_table(k, resp) ==
    /\ pc = MainPc[k]
    /\ call' = [op |-> "main"]
    /\ sent' = Append(sent, Request("POST", <<config.meta_api_url, "/query">>,
                                    config.headers, NoParams,
                                    [query |-> create_table_sql(AgentTableNames[k],
                                                                AgentColumns[k], "public")],
                                    resp))
    /\ LET o == create_table_outcome(AgentTableNames[k], AgentColumns[k], resp)
       IN  IF Failed(o)
           THEN pc' = "done" /\ outcome' = main_returns_1(o.kind)
           ELSE pc' = MainPc[k + 1] /\ outcome' = NoOutcome
    /\ UNCHANGED <<config, loop, files, exported>>

\* t['name'] in ['source_configs', 'monitor_jobs', 'push_logs']
is_agent_table(t) == \E k \in 1..Len(AgentTableNames) : t.name = AgentTableNames[k]

\* tables = client.list_tables(); agent_tables = [t for t in tables if ...]:
\* a listed table without a name raises KeyError; with no agent table listed
\* the loop has nothing to do and main returns 0
main_list_tables(resp) ==
    /\ pc = "main_verify"
    /\ sent' = Append(sent, Request("GET", <<config.meta_api_url, "/tables">>,
                                    config.headers, [schema |-> "public"], NoJson, resp))
    /\ IF Failed(RequestOutcome(resp))
       THEN pc' = "done" /\ outcome' = main_returns_1(RequestOutcome(resp).kind)
                         /\ loop' = loop
       ELSE IF \E j \in 1..Len(resp.body) : ~Has(resp.body[j], "name")
       THEN pc' = "done" /\ outcome' = main_returns_1("KeyError") /\ loop' = loop
       ELSE IF SelectSeq(resp.body, is_agent_table) = <<>>
       THEN pc' = "done" /\ outcome' = [kind |-> "return", result |-> 0] /\ loop' = loop
       ELSE /\ pc' = "main_info"
            /\ outcome' = outcome
            /\ loop' = [data |-> SelectSeq(resp.body, is_agent_table), i |-> 0,
                        total |-> 0, batch_size |-> 0]
    /\ UNCHANGED <<config, call, files, exported>>

\* one pass of `for table in agent_tables: info = client.get_table_info(...)`
main_get_table_info(resp) ==
    /\ pc = "main_info"
    /\ sent' = Append(sent, Request("GET",
                                    TableUrl(loop.data[loop.i + 1].name, "public"),
                                    config.headers, NoParams, NoJson, resp))
    /\ IF Failed(RequestOutcome(resp))
       THEN pc' = "done" /\ outcome' = main_returns_1(RequestOutcome(resp).kind)
                         /\ loop' = loop
       ELSE /\ loop' = [loop EXCEPT !.i = loop.i + 1]
            /\ IF loop.i + 1 >= Len(loop.data)
               THEN pc' = "done" /\ outcome' = [kind |-> "return", result |-> 0]
               ELSE pc' = pc /\ outcome' = outcome
    /\ UNCHANGED <<config, call, files, exported>>

ListedTables ==
    {[name |-> n] : n \in {"source_configs", "monitor_jobs", "push_logs", "products"}}
    \cup {Row1}

TableListings == UNION {[1..n -> ListedTables] : n \in 0..MaxListed}

ListResponses ==
    {[delivered |-> FALSE, status |-> 0, body |-> <<>>],
     [delivered |-> TRUE, status |-> 500, body |-> <<>>]}
    \cup [delivered : {TRUE}, status : {200}, body : TableListings]

MainCreateTable == pc \in {"idle", "main_create_2", "main_create_3"}
                   /\ \E k \in 1..Len(AgentTableNames), r \in DDLResponses :
                          main_create_table(k, r)

MainListTables == pc = "main_verify" /\ \E r \in ListResponses : main_list_tables(r)

MainGetTableInfo == pc = "main_info" /\ \E r \in Responses : main_get_table_info(r)

NextInitDb == MainCreateTable \/ MainListTables \/ MainGetTableInfo \/ Return

SpecInitDb == Init /\ [][NextInitDb]_vars

(***************************************************************************)
(* SpecRoundTrip: exports of a table of at most MaxTable rows and imports  *)
(* of the file at the same path.                                           *)
(***************************************************************************)
NextRoundTrip ==
    \/ ExportToCsv \/ ExportToJson
    \/ ImportCsvFile \/ ImportJsonFile \/ ImportMissingFile
    \/ import_from_csv_batch \/ import_from_json_batch
    \/ Return

SpecRoundTrip == Init /\ [][NextRoundTrip]_vars

Next == Update \/ Delete \/ Insert \/ ExecuteSql \/ Select
        \/ ImportFromCsv \/ import_from_csv_batch
        \/ ImportFromJson \/ import_from_json_batch
        \/ CountRows
        \/ Return

Spec == Init /\ [][Next]_vars

\* C1: update or delete with an empty filter mapping fails with a
\* ValidationError and sends no HTTP request.
C1_EmptyFiltersRejected ==
    (call.op \in {"update", "delete"} /\ DOMAIN call.filters = {})
        => (outcome.kind \in {"ValidationError", "KeyError", "ValueError"}
            /\ sent = <<>>)

LastStatus == sent[Len(sent)].resp.status

SelectCall == call.op = "select"

SelectSent == sent[1].params

\* C10 as stated: the key set is {select}, the filter columns, order when
\* order is present, limit/offset when present and non-zero; select is always
\* the requested columns, every filter value is copied verbatim, limit and
\* offset are their decimal strings.
C10_SelectParams ==
    SelectCall =>
        LET a == call.args
            f == Arg(a, "filters", <<>>)
        IN  /\ DOMAIN SelectSent =
                   {"select"} \cup DOMAIN f
                   \cup (IF Has(a, "order") THEN {"order"} ELSE {})
                   \cup (IF number_given(a, "limit") THEN {"limit"} ELSE {})
                   \cup (IF number_given(a, "offset") THEN {"offset"} ELSE {})
            /\ SelectSent.select = Arg(a, "columns", "*")
            /\ \A k \in DOMAIN f : SelectSent[k] = f[k]
            /\ (number_given(a, "limit") => SelectSent.limit = IntToStr(a.limit))
            /\ (number_given(a, "offset") => SelectSent.offset = IntToStr(a.offset))
            /\ (Has(a, "order") => SelectSent.order = a.order)

\* C10 as amended: the key set is {select}, the filter columns, order when
\* order is present and not empty, limit/offset when present and non-zero; a
\* later assignment wins, so order, limit and offset carry the arguments
\* (limit and offset as decimal strings), every other filter column carries
\* its filter value verbatim, and select carries the requested columns
\* (default "*") unless a filter is keyed "select".
C10_SelectParamsLastWins ==
    SelectCall =>
        LET a == call.args
            f == Arg(a, "filters", <<>>)
            top == (IF order_given(a) THEN {"order"} ELSE {})
                   \cup (IF number_given(a, "limit") THEN {"limit"} ELSE {})
                   \cup (IF number_given(a, "offset") THEN {"offset"} ELSE {})
        IN  /\ DOMAIN SelectSent = {"select"} \cup DOMAIN f \cup top
            /\ (order_given(a) => SelectSent.order = a.order)
            /\ (number_given(a, "limit") => SelectSent.limit = IntToStr(a.limit))
            /\ (number_given(a, "offset") => SelectSent.offset = IntToStr(a.offset))
            /\ \A k \in DOMAIN f \ top : SelectSent[k] = f[k]
            /\ ("select" \notin DOMAIN f => SelectSent.select = Arg(a, "columns", "*"))

\* the spec's example: columns "*", one filter, an order and limit 10
C10_Witness ==
    /\ SelectCall
    /\ Arg(call.args, "filters", <<>>) = [price |-> "gte.100"]
    /\ Arg(call.args, "limit", 0) = 10
    /\ SelectSent = [select |-> "*", price |-> "gte.100",
                     order |-> "created_at.desc", limit |-> "10"]

\* the string with at most one leading '-' taken off
MinusLeadingSign(s) == IF s # <<>> /\ Head(s) = "-" THEN Tail(s) ELSE s

CoerceDone == call.op = "coerce" /\ pc = "done"

\* C9: a raw field coerces to an int when, minus at most one leading '-', it
\* is all digits; to a float when, minus at most one '.' and at most one
\* leading '-', it is all digits and it holds a '.'; otherwise it comes back
\* unchanged as a string, and nothing is raised.
C9_Coercion ==
    CoerceDone =>
        LET v == call.value
        IN  /\ outcome.kind = "ok"
            /\ IF isdigit(MinusLeadingSign(v))
               THEN outcome.result.type = "int"
               ELSE IF isdigit(replace_first(MinusLeadingSign(v), "."))
                       /\ contains(v, ".")
               THEN outcome.result.type = "float"
               ELSE outcome.result = [type |-> "str", str |-> v]

ImportCall == call.op \in {"import_from_csv", "import_from_json"}

\* the rows of the imported file
ImportRows == IF call.op = "import_from_csv" THEN call.file ELSE json_rows(call.file)

\* the rows as insert is to receive them
ImportPayload ==
    IF call.op = "import_from_csv" THEN converted_batch(call.file)
    ELSE json_rows(call.file)

CeilDiv(n, b) == (n + b - 1) \div b

\* the j-th batch of the file for the call's batch size
ExpectedBatch(j) ==
    SubSeq(ImportPayload, (j - 1) * call.batch_size + 1,
           Min(j * call.batch_size, Len(ImportPayload)))

AllInsertsSucceeded == \A j \in 1..Len(sent) : ~Failed(RequestOutcome(sent[j].resp))

\* C2: an import of N >= 1 rows with batch size B >= 1 whose inserts all
\* succeed issues exactly ceil(N/B) inserts, in file order, of B rows each but
\* for the last, and returns N.
C2_BatchCount ==
    (ImportCall /\ pc = "done" /\ Len(ImportRows) >= 1 /\ call.batch_size >= 1
        /\ AllInsertsSucceeded)
        => /\ Len(sent) = CeilDiv(Len(ImportRows), call.batch_size)
           /\ \A j \in 1..Len(sent) :
                  /\ sent[j].method = "POST"
                  /\ sent[j].json = ExpectedBatch(j)
                  /\ (j < Len(sent) => Len(sent[j].json) = call.batch_size)
           /\ outcome = [kind |-> "ok", result |-> Len(ImportRows)]

\* C3: when the insert of batch k fails, the failure reaches the caller at
\* once: the failed request is the last one of the call, it is batch k sent
\* once, the requests before it are the inserts of batches 1..k-1 in order,
\* all of which succeeded, and nothing but inserts was sent.
C3_FailurePropagates ==
    ImportCall =>
        /\ \A j \in 1..Len(sent) :
               /\ sent[j].method = "POST"
               /\ sent[j].url = RestUrl(call.table_name)
               /\ sent[j].json = ExpectedBatch(j)
               /\ Failed(RequestOutcome(sent[j].resp)) =>
                      /\ j = Len(sent)
                      /\ pc = "done"
                      /\ outcome = RequestOutcome(sent[j].resp)
        /\ (call.batch_size >= 1 =>
               Len(sent) <= CeilDiv(Len(ImportRows), call.batch_size))
        /\ (Failed(outcome) => Len(sent) >= 1 /\ Failed(RequestOutcome(sent[Len(sent)].resp)))

\* the second batch of three failed after the first was inserted
C3_Witness ==
    /\ ImportCall
    /\ pc = "done"
    /\ Len(ImportRows) = 3
    /\ call.batch_size = 1
    /\ Len(sent) = 2
    /\ ~Failed(RequestOutcome(sent[1].resp))
    /\ outcome = [kind |-> "HTTPError", status |-> 500]

(***************************************************************************)
(* The CREATE TABLE text that was sent, read back.                         *)
(***************************************************************************)
DDLCall == call.op = "create_table"

DDLSent == DDLCall /\ sent # <<>>

Sql == sent[1].json.query

FirstIndex(seq, piece) == CHOOSE k \in 1..Len(seq) :
                              seq[k] = piece /\ \A j \in 1..(k - 1) : seq[j] # piece

Count(seq, piece) == Cardinality({k \in 1..Len(seq) : seq[k] = piece})

IsPrefix(p, seq) == Len(p) <= Len(seq) /\ SubSeq(seq, 1, Len(p)) = p

\* the pieces between the opening " (\n" and the closing "\n);"
SqlBody == SubSeq(Sql, FirstIndex(Sql, " (\n") + 1, Len(Sql) - 1)

RECURSIVE SplitOn(_, _)
SplitOn(seq, sep) ==
    IF Count(seq, sep) = 0 THEN <<seq>>
    ELSE <<SubSeq(seq, 1, FirstIndex(seq, sep) - 1)>>
         \o SplitOn(SubSeq(seq, FirstIndex(seq, sep) + 1, Len(seq)), sep)

\* the column clauses of the text, split at ",\n"
SqlClauses == SplitOn(SqlBody, ",\n")

IntegerFamily ==
    {<<"i", "n", "t", "e", "g", "e", "r">>, <<"i", "n", "t">>,
     <<"b", "i", "g", "i", "n", "t">>}

\* C5: the clause of an identity column of type integer, int or bigint is the
\* auto-increment shortcut with its one PRIMARY KEY, whatever isPrimaryKey and
\* isNullable are: no NOT NULL and no second PRIMARY KEY.
C5_IdentityShortcutOnly ==
    DDLSent =>
        \A k \in 1..Len(call.columns) :
            (Truthy(call.columns[k], "isIdentity")
                /\ lower(call.columns[k].type) \in IntegerFamily)
            => /\ \E t \in {"SERIAL", "BIGSERIAL"} :
                      IsPrefix(quoted_name(call.columns[k]) \o <<" ", t, " PRIMARY KEY">>,
                               SqlClauses[k])
               /\ Count(SqlClauses[k], " PRIMARY KEY") = 1
               /\ Count(SqlClauses[k], " NOT NULL") = 0

\* C6: a column that is not a primary key and has isNullable = false gets a
\* NOT NULL, and no clause that carries PRIMARY KEY carries NOT NULL too.
C6_NotNullOnlyOffPrimaryKey ==
    DDLSent =>
        \A k \in 1..Len(call.columns) :
            /\ (~Truthy(call.columns[k], "isPrimaryKey")
                   /\ Has(call.columns[k], "isNullable")
                   /\ ~call.columns[k].isNullable)
               => Count(SqlClauses[k], " NOT NULL") >= 1
            /\ Count(SqlClauses[k], " PRIMARY KEY") >= 1
               => Count(SqlClauses[k], " NOT NULL") = 0

\* the exceptions with which a call rejects its arguments before any request
InputErrors == {"ValidationError", "KeyError", "ValueError"}

\* C7: create_table with no column, or with a column that lacks a name or a
\* type, fails on its input and sends no DDL request.
C7_InvalidColumnsRejected ==
    (DDLCall /\ (call.columns = <<>>
                 \/ \E k \in 1..Len(call.columns) : lacks_key(call.columns[k])))
        => (outcome.kind \in InputErrors /\ sent = <<>>)

\* C8: for n >= 1 valid columns the text holds exactly n clauses, the k-th
\* the clause of the k-th column, joined by ",\n"; it ends with ");" and the
\* table name is qualified with the schema exactly when that is not "public".
C8_OneClausePerColumn ==
    (DDLSent /\ Len(call.columns) >= 1) =>
        /\ Len(SqlClauses) = Len(call.columns)
        /\ Count(SqlBody, ",\n") = Len(call.columns) - 1
        /\ \A k \in 1..Len(call.columns) :
               /\ SqlClauses[k] = column_def(call.columns[k])
               /\ IsPrefix(quoted_name(call.columns[k]), SqlClauses[k])
        /\ Sql[Len(Sql)] = "\n);"
        /\ Sql[1] = "CREATE TABLE "
        /\ IF call.schema # "public"
           THEN IsPrefix(<<"CREATE TABLE ", "\"", call.schema, "\".\"",
                           call.table_name, "\"", " (\n">>, Sql)
           ELSE IsPrefix(<<"CREATE TABLE ", "\"", call.table_name, "\"", " (\n">>, Sql)

\* two columns in a schema other than public, the statement accepted
C8_Witness ==
    /\ DDLSent
    /\ Len(call.columns) = 2
    /\ call.columns[1] # call.columns[2]
    /\ call.schema = "app"
    /\ outcome.kind = "ok"
    /\ Len(SqlClauses) = 2

(***************************************************************************)
(* The DEFAULT of a column, read back from the text.                       *)
(***************************************************************************)
\* the pieces of a clause after its first " DEFAULT "
AfterDefault(clause) ==
    SubSeq(clause, FirstIndex(clause, " DEFAULT ") + 1, Len(clause))

\* the default the value stands for: the timestamp call for now() in any
\* letter case, a quoted literal for other text, the bare value otherwise
ExpectedDefault(v) ==
    IF Has(v, "str") /\ lower(v.str) = <<"n", "o", "w", "(", ")">> THEN <<"NOW()">>
    ELSE IF Has(v, "str") /\ ~isdigit(v.str) THEN <<"'">> \o v.str \o <<"'">>
    ELSE IF Has(v, "str") THEN v.str
    ELSE <<IntToStr(v.num)>>

\* C11: the clause of every column whose defaultValue is present has exactly
\* one DEFAULT: NOW() for the token now() in any letter case, a single-quoted
\* literal for a string that is not all digits, the bare value for an
\* all-digit string and for a number, the number 0 included.
C11_DefaultRendered ==
    DDLSent =>
        \A k \in 1..Len(call.columns) :
            Has(call.columns[k], "defaultValue")
            => /\ Count(SqlClauses[k], " DEFAULT ") = 1
               /\ AfterDefault(SqlClauses[k]) = ExpectedDefault(call.columns[k].defaultValue)

\* the count request was answered with a 2xx status
CountAnswered ==
    /\ call.op = "count"
    /\ pc = "done"
    /\ sent[1].resp.delivered
    /\ sent[1].resp.status >= 200 /\ sent[1].resp.status < 300

\* C14: after a 2xx answer count returns a non-negative integer, the total
\* after the "/" of Content-Range when the header is present and 0 when it
\* is absent; it never ends in an error.
C14_CountOfSuccessfulAnswer ==
    CountAnswered =>
        /\ outcome.kind = "ok"
        /\ outcome.result >= 0
        /\ IF Has(sent[1].resp.headers, "ContentRange")
           THEN outcome.result
                    = int_value(SplitOn(sent[1].resp.headers.ContentRange, "/")[2])
           ELSE outcome.result = 0

(***************************************************************************)
(* A file imported after an export of the same format.                     *)
(***************************************************************************)
\* the rows posted by the call, batch after batch
RECURSIVE PostedRows(_)
PostedRows(requests) ==
    IF requests = <<>> THEN <<>>
    ELSE Head(requests).json \o PostedRows(Tail(requests))

\* an import has ended, the last export was of its format, and no request
\* of the import failed
RoundTripDone ==
    /\ ImportCall
    /\ pc = "done"
    /\ call.batch_size >= 1
    /\ exported.format = (IF call.op = "import_from_csv" THEN "csv" ELSE "json")
    /\ \A j \in 1..Len(sent) : ~Failed(RequestOutcome(sent[j].resp))

\* C12: an import that follows the export of N rows posts exactly N rows,
\* in the exported order, every integer field with its value before the
\* export; for every N >= 0 and for rows with null fields.
C12_RoundTrip ==
    RoundTripDone =>
        /\ Len(PostedRows(sent)) = Len(exported.rows)
        /\ \A k \in 1..Len(exported.rows) :
               \A f \in DOMAIN exported.rows[k] :
                   exported.rows[k][f].type = "int"
                   => /\ f \in DOMAIN PostedRows(sent)[k]
                      /\ PostedRows(sent)[k][f] = exported.rows[k][f]

\* C13: whatever operations were called since construction, and however
\* they ended, url, key, meta_api_url and the shared headers (Prefer
\* included) are what the constructor set.
C13_ConfigurationKept == config = InitialConfig

\* a count that ended in an error after an export had written its file
C13_Witness ==
    /\ call.op = "count"
    /\ pc = "done"
    /\ outcome.kind = "IndexError"
    /\ sent[1].headers.Prefer = "count=exact"
    /\ files.exists
    /\ exported.format # "none"
    /\ config.headers.Prefer = "return=representation"

(***************************************************************************)
(* The requests of a run of main().                                        *)
(***************************************************************************)
RequestFailed(j) == Failed(RequestOutcome(sent[j].resp))

\* the j-th request is the CREATE TABLE of the k-th table
CreatesTable(j, k) ==
    /\ sent[j].method = "POST"
    /\ sent[j].url = <<config.meta_api_url, "/query">>
    /\ IsPrefix(<<"CREATE TABLE ", "\"", AgentTableNames[k], "\"", " (\n">>,
                sent[j].json.query)

\* C15: main sends its CREATE TABLE requests in the order source_configs,
\* monitor_jobs, push_logs and the verification requests after them, each
\* request only after the one before succeeded; nothing is sent after a
\* failure and nothing but CREATE TABLE and GET is ever sent, so what was
\* created stays; a failure makes main return 1, and main returns 0 only
\* after three creations and the listing succeeded, with every request.
C15_InitDbOrder ==
    call.op = "main" =>
        /\ \A j \in 1..Len(sent) :
               /\ IF j <= Len(AgentTableNames)
                  THEN CreatesTable(j, j)
                  ELSE sent[j].method = "GET"
               /\ j < Len(sent) => ~RequestFailed(j)
        /\ (\E j \in 1..Len(sent) : RequestFailed(j))
               => (pc = "done" /\ outcome.kind = "return" /\ outcome.result = 1)
        /\ pc = "done" => (outcome.kind = "return" /\ outcome.result \in {0, 1})
        /\ (pc = "done" /\ outcome.result = 0)
               => /\ Len(sent) > Len(AgentTableNames)
                  /\ \A j \in 1..Len(sent) : ~RequestFailed(j)
                  /\ sent[Len(AgentTableNames) + 1].url = <<config.meta_api_url, "/tables">>

\* source_configs was created, the creation of monitor_jobs failed
C15_Witness ==
    /\ call.op = "main"
    /\ pc = "done"
    /\ Len(sent) = 2
    /\ CreatesTable(1, 1) /\ ~RequestFailed(1)
    /\ CreatesTable(2, 2) /\ RequestFailed(2)
    /\ outcome.result = 1

====
